---- MODULE Spec2Model ----
(***************************************************************************)
(* Auto-discover reconciliation of a capture: connector discover, merge    *)
(* into the live binding list, publication, evolution of incompatible      *)
(* collections and the persisted AutoDiscoverStatus / publication history. *)
(* Behaviour is taken from crates/agent/src/integration_tests/             *)
(* auto_discovers.rs; the parts the tests do not pin down follow the       *)
(* design document of the subsystem.                                       *)
(***************************************************************************)
EXTENDS Integers, Sequences, FiniteSets, TLC

VARIABLES
    autoDiscover,   \* "autoDiscover" of the capture spec: None when absent
    shards,         \* "shards" of the capture spec: [disable]
    bindings,       \* live binding list of the capture
    collections,    \* live collections: name -> [schema, key]
    matBindings,    \* live binding list of the materialization (sourceCapture)
    initialized,    \* whether the controller status has an auto_discover
    status,         \* AutoDiscoverStatus: [last_success, failure]
    next_run,       \* next_run of the controller state: None or Some(time)
    history,        \* publications.history, newest first
    now,            \* clock, in ticks of AUTO_DISCOVER_WAIT
    pc,             \* position of the capture controller's discover cycle
    cycle           \* working state of the cycle in flight

vars == <<autoDiscover, shards, bindings, collections, matBindings, initialized,
          status, next_run, history, now, pc, cycle>>

\* Number of clock ticks, and so of discover cycles, that are explored.
MaxCycles == 2

None == <<>>
Some(x) == <<x>>

----------------------------------------------------------------------------
\* Values of the test fixtures

KeyId == <<"/id">>
KeyIdSqueaks == <<"/id", "/squeaks">>
Keys == {KeyId, KeyIdSqueaks}

\* document_schema(version): the schema differs only in "maximum": version
document_schema(version) == [maximum |-> version]
SchemaVersions == {1, 2}

\* A collection name under the capture's tenant: base name, collision suffix
\* (dup = 0: none) and version suffix (ver = 1: none, ver = n: "_v<n>").
Name(base) == [base |-> base, dup |-> 0, ver |-> 1]

\* One discovered::Binding of the connector's Discovered response
DiscoveredBinding(name, config, version, key, disable, path) ==
    [ recommended_name |-> name,
      resource_config  |-> config,
      document_schema  |-> document_schema(version),
      key              |-> key,
      disable          |-> disable,
      resource_path    |-> path ]

\* The discovered bindings the tests' mock connector reports for grass
GrassDiscovered ==
    { DiscoveredBinding("grass", [id |-> "grass", extra |-> "grass"], 2, KeyId, FALSE, <<>>),
      DiscoveredBinding("grass", [id |-> "grass"], 2, KeyId, TRUE, <<>>),
      DiscoveredBinding("grass", [id |-> "grass", expect |-> "ignore in favor of existing"],
                        1, KeyId, FALSE, <<>>),
      DiscoveredBinding("grass", [id |-> "grass", extra |-> "discovered"],
                        2, KeyIdSqueaks, FALSE, <<>>),
      \* the connector supplies the resource path itself
      DiscoveredBinding("grass", [id |-> "pasture"], 1, KeyId, FALSE, <<"grass">>) }

\* ... for moss
MossDiscovered ==
    { DiscoveredBinding("moss", [id |-> "moss", extra |-> "stuff"], 1, KeyId, TRUE, <<>>),
      DiscoveredBinding("moss", [id |-> "moss", expect |-> "existing config takes precedence"],
                        2, KeyId, FALSE, <<>>) }

\* ... and for lichen
LichenDiscovered ==
    { DiscoveredBinding("lichen", [id |-> "lichen"], 1, KeyId, FALSE, <<>>) }

\* Zero or one discovered binding, as a sequence
Optional(S) == {<<>>} \cup { <<d>> : d \in S }

\* The Discovered responses of the mock connector: grass, moss, lichen in
\* that order, each present or missing.
DiscoveredResponses ==
    { g \o m \o l : g \in Optional(GrassDiscovered),
                     m \in Optional(MossDiscovered),
                     l \in Optional(LichenDiscovered) }

----------------------------------------------------------------------------
\* Identity Resolver

\* The connector's resource_path verbatim, else derived from the resource
\* config's "id" field.
ResourceIdentity(d) ==
    IF d.resource_path # <<>> THEN d.resource_path ELSE <<d.resource_config.id>>

Identities(discovered) ==
    { ResourceIdentity(discovered[i]) : i \in 1..Len(discovered) }

\* Two bindings of the Discovered response have the same identity
HasDuplicate(discovered) == Cardinality(Identities(discovered)) < Len(discovered)

\* Discovered responses that report grass twice: the same binding again, or
\* another one that resolves to the same identity
DuplicateResponses ==
    { <<g, h>> \o m : g \in GrassDiscovered, h \in GrassDiscovered,
                       m \in Optional(MossDiscovered) }

----------------------------------------------------------------------------
\* Binding Merge Engine

DiscoverChange(path, target, disable) ==
    [resource_path |-> path, target |-> target, disable |-> disable]

ChangeOf(b) == DiscoverChange(b.resource_path, b.target, b.disable)

Targets(bs) == { b.target : b \in bs }

\* Variant: keys only the connector sends are added to the live config.
MergeConfigAddingKeys(live, disc) ==
    [k \in DOMAIN live \cup DOMAIN disc |-> IF k \in DOMAIN live THEN live[k] ELSE disc[k]]

\* Resource config of a matched pair: the live binding's config is kept.
MergeConfig(live, disc) == [k \in DOMAIN live |-> live[k]]

\* Variant: the binding is disabled when either side says so.
MergeDisableEither(live, disc) == live \/ disc

\* Variant: the connector's flag replaces the live flag.
MergeDisableFromConnector(live, disc) == disc

\* Disable flag of a matched pair: the live binding's flag is kept.
MergeDisable(live, disc) == live

\* Schema and key of the target collection are those the connector reports.
MergedCollection(d) == [schema |-> d.document_schema, key |-> d.key]

\* Variant: the derived name is used even when it is taken.
DeriveTargetUnsuffixed(name, used) == Name(name)

\* Target of a new binding: tenant/recommended_name, suffixed when the name
\* is in use: a collection of the catalog or the target of another binding.
DeriveTarget(name, used) ==
    LET base == Name(name)
        cand(k) == [base EXCEPT !.dup = k]
    IN  IF base \notin used THEN base
        ELSE cand(CHOOSE k \in 2..(Cardinality(used) + 2) :
                    /\ cand(k) \notin used
                    /\ \A j \in 2..(k - 1) : cand(j) \in used)

\* Variant: the flag is not consulted.
AddsNewBindingAlways(addNewBindings) == TRUE

\* Whether discovered-only resources become new bindings
AddsNewBinding(addNewBindings) == addNewBindings

\* Variant: a new binding is always enabled.
NewBindingEnabled(d, target) ==
    [ resource_path |-> ResourceIdentity(d), resource |-> d.resource_config,
      target |-> target, disable |-> FALSE ]

\* The binding added for a discovered resource: the connector's config and
\* disable flag
NewBinding(d, target) ==
    [ resource_path |-> ResourceIdentity(d), resource |-> d.resource_config,
      target |-> target, disable |-> d.disable ]

\* Variant: the connector's reported flag is compared although the live
\* flag is the one kept.
ModifiedByReportedFlag(b, merged, d, colls) ==
    \/ b.target \notin DOMAIN colls
    \/ colls[b.target] # MergedCollection(d)
    \/ d.disable # b.disable

\* Variant: a discovered resource config that differs from the live one
\* also counts.
ModifiedByConfig(b, merged, d, colls) ==
    \/ b.target \notin DOMAIN colls
    \/ colls[b.target] # MergedCollection(d)
    \/ merged.disable # b.disable
    \/ d.resource_config # b.resource

\* A matched pair is reported as modified when the collection's schema or
\* key, or the binding's disable flag, changes.
Modified(b, merged, d, colls) ==
    \/ b.target \notin DOMAIN colls
    \/ colls[b.target] # MergedCollection(d)
    \/ merged.disable # b.disable

EmptyChanges == [added |-> {}, modified |-> {}, removed |-> {}]

\* Variant: disabled bindings are left in the list.
LiveOnlyEnabled(live, discovered) ==
    { b \in live : ~b.disable /\ b.resource_path \notin Identities(discovered) }

\* Live bindings the connector no longer reports
LiveOnly(live, discovered) ==
    { b \in live : b.resource_path \notin Identities(discovered) }

\* Variant: a discovered binding is matched to the live binding whose target
\* is the name derived from the recommended name.
MergeOneByName(acc, d, live, colls, addNewBindings) ==
    LET matched == { b \in live : b.target = Name(d.recommended_name) }
    IN  IF matched # {}
        THEN LET b == CHOOSE x \in matched : TRUE
                 merged == [b EXCEPT !.resource = MergeConfig(b.resource, d.resource_config),
                                     !.disable = MergeDisable(b.disable, d.disable)]
             IN  [acc EXCEPT !.bindings = (@ \ {b}) \cup {merged},
                             !.collections = (b.target :> MergedCollection(d)) @@ @,
                             !.modified = IF Modified(b, merged, d, colls)
                                          THEN @ \cup {ChangeOf(merged)} ELSE @]
        ELSE IF AddsNewBinding(addNewBindings)
        THEN LET target == DeriveTarget(d.recommended_name,
                                        DOMAIN acc.collections \cup Targets(acc.bindings))
                 new == NewBinding(d, target)
             IN  [acc EXCEPT !.bindings = @ \cup {new},
                             !.collections = (target :> MergedCollection(d)) @@ @,
                             !.added = @ \cup {ChangeOf(new)}]
        ELSE acc

\* One discovered binding merged into the accumulated model
MergeOne(acc, d, live, colls, addNewBindings) ==
    LET rid == ResourceIdentity(d)
        matched == { b \in live : b.resource_path = rid }
    IN  IF matched # {}
        THEN LET b == CHOOSE x \in matched : TRUE
                 merged == [b EXCEPT !.resource = MergeConfig(b.resource, d.resource_config),
                                     !.disable = MergeDisable(b.disable, d.disable)]
             IN  [acc EXCEPT !.bindings = (@ \ {b}) \cup {merged},
                             !.collections = (b.target :> MergedCollection(d)) @@ @,
                             !.modified = IF Modified(b, merged, d, colls)
                                          THEN @ \cup {ChangeOf(merged)} ELSE @]
        ELSE IF AddsNewBinding(addNewBindings)
        THEN LET target == DeriveTarget(d.recommended_name,
                                        DOMAIN acc.collections \cup Targets(acc.bindings))
                 new == NewBinding(d, target)
             IN  [acc EXCEPT !.bindings = @ \cup {new},
                             !.collections = (target :> MergedCollection(d)) @@ @,
                             !.added = @ \cup {ChangeOf(new)}]
        ELSE acc

RECURSIVE MergeFrom(_, _, _, _, _, _)
MergeFrom(acc, discovered, i, live, colls, addNewBindings) ==
    IF i > Len(discovered) THEN acc
    ELSE MergeFrom(MergeOne(acc, discovered[i], live, colls, addNewBindings),
                   discovered, i + 1, live, colls, addNewBindings)

\* The merge of a Discovered response into the live model: the candidate
\* binding list, the draft collections and the three change lists.
Merge(live, colls, discovered, addNewBindings) ==
    LET gone == LiveOnly(live, discovered)
        start == [bindings |-> live \ gone, collections |-> colls,
                  added |-> {}, modified |-> {},
                  removed |-> { ChangeOf(b) : b \in gone }]
    IN  MergeFrom(start, discovered, 1, live, colls, addNewBindings)

ChangesOf(m) == [added |-> m.added, modified |-> m.modified, removed |-> m.removed]

IsUnchanged(ch) == ch.added = {} /\ ch.modified = {} /\ ch.removed = {}

----------------------------------------------------------------------------
\* Build/test/activate pipeline and Evolution Coordinator

Success == [type |-> "success", incompatible_collections |-> {}]

BuildFailed(incompatible) ==
    [type |-> "buildFailed", incompatible_collections |-> incompatible]

\* Collections of the draft whose key differs from the live collection's
KeyChanged(draft, live) ==
    { n \in DOMAIN draft \cap DOMAIN live : draft[n].key # live[n].key }

IncompatibleCollections(draft, live) ==
    { [collection |-> n, requires_recreation |-> {"keyChange"}] :
        n \in KeyChanged(draft, live) }

\* The first version suffix of a re-created collection ("_v2")
FirstVersion == 2

\* The next unused versioned name of a collection
NextVersion(n, existing) ==
    [n EXCEPT !.ver =
        CHOOSE v \in FirstVersion..(FirstVersion + Cardinality(existing)) :
            /\ [n EXCEPT !.ver = v] \notin existing
            /\ \A u \in FirstVersion..(v - 1) : [n EXCEPT !.ver = u] \in existing]

\* old name -> new name, for every collection to re-create
RECURSIVE Renames(_, _)
Renames(todo, existing) ==
    IF todo = {} THEN <<>>
    ELSE LET n == CHOOSE x \in todo : TRUE
             new == NextVersion(n, existing)
         IN  (n :> new) @@ Renames(todo \ {n}, existing \cup {new})

Renamed(renames, n) == IF n \in DOMAIN renames THEN renames[n] ELSE n

\* The capture's bindings retargeted to the re-created collections
EvolveBindings(bs, renames) ==
    { [b EXCEPT !.target = Renamed(renames, @)] : b \in bs }

\* The draft collections with every incompatible collection left as it is
\* live and its discovered schema and key moved to the new name
EvolveCollections(draft, live, renames) ==
    [ n \in DOMAIN draft \cup { renames[o] : o \in DOMAIN renames } |->
        IF n \in DOMAIN renames THEN live[n]
        ELSE IF \E o \in DOMAIN renames : renames[o] = n
             THEN draft[CHOOSE o \in DOMAIN renames : renames[o] = n]
             ELSE draft[n] ]

\* Variant: the binding is retargeted without a backfill.
RetargetedOnly(mb, renames) ==
    IF mb.source \in DOMAIN renames
    THEN [source |-> renames[mb.source], backfill |-> mb.backfill]
    ELSE mb

\* A materialization binding sourced from a re-created collection
Backfilled(mb, renames) ==
    IF mb.source \in DOMAIN renames
    THEN [source |-> renames[mb.source], backfill |-> mb.backfill + 1]
    ELSE mb

EvolveMaterialization(mbs, renames) == { Backfilled(mb, renames) : mb \in mbs }

----------------------------------------------------------------------------
\* Status Store

Outcome(ts, changes, publish_result, errors) ==
    [ ts |-> ts, added |-> changes.added, modified |-> changes.modified,
      removed |-> changes.removed, publish_result |-> publish_result,
      errors |-> errors ]

\* Variant: the count is not incremented within a streak.
NextCountStuck(failure) == IF failure = None THEN 1 ELSE failure[1].count

\* The failure count after one more failed cycle
NextCount(failure) == IF failure = None THEN 1 ELSE failure[1].count + 1

\* Variant: the status is rebuilt around the failure and loses last_success.
RecordFailureOnly(st, outcome) ==
    [ last_success |-> None,
      failure |-> Some([ count |-> NextCount(st.failure),
                         first_ts |-> IF st.failure = None THEN outcome.ts
                                      ELSE st.failure[1].first_ts,
                         last_outcome |-> outcome ]) ]

\* Variant: every failure restarts the streak's first timestamp.
RecordFailureRestarting(st, outcome) ==
    [st EXCEPT !.failure =
        Some([ count |-> NextCount(st.failure),
               first_ts |-> outcome.ts,
               last_outcome |-> outcome ])]

RecordFailure(st, outcome) ==
    [st EXCEPT !.failure =
        Some([ count |-> NextCount(st.failure),
               first_ts |-> IF st.failure = None THEN outcome.ts
                            ELSE st.failure[1].first_ts,
               last_outcome |-> outcome ])]

\* Variant: a success does not touch the failure record.
KeptFailure(failure) == failure

\* The failure record after a cycle that ended in success
ClearedFailure(failure) == None

\* Variant: last_success records only the cycles that published changes.
RecordSuccessOfChanges(st, outcome) ==
    [st EXCEPT !.last_success = IF outcome.publish_result = None THEN @
                                ELSE Some(outcome),
               !.failure = ClearedFailure(st.failure)]

RecordSuccess(st, outcome) ==
    [st EXCEPT !.last_success = Some(outcome),
               !.failure = ClearedFailure(st.failure)]

\* "auto-discover changes (A added, M modified, R removed)" and, when
\* recreating > 0, ", and re-creating K collections"
Detail(changes, recreating) ==
    [ added |-> Cardinality(changes.added),
      modified |-> Cardinality(changes.modified),
      removed |-> Cardinality(changes.removed),
      recreating |-> recreating ]

HistoryEntry(changes, recreating, result, errors) ==
    [detail |-> Detail(changes, recreating), result |-> result, errors |-> errors]

----------------------------------------------------------------------------
\* Live models the tests start from

LiveBinding(id, extra, target, disable) ==
    [ resource_path |-> <<id>>, resource |-> [id |-> id, extra |-> extra],
      target |-> target, disable |-> disable ]

Collection(version, key) == [schema |-> document_schema(version), key |-> key]

MaterializationBinding(source) == [source |-> source, backfill |-> 0]

\* marmots/capture: no bindings yet
NewCapture == [bindings |-> {}, collections |-> <<>>, matBindings |-> {}]

\* pikas/capture: grass under a user-chosen target, moss, and lichen disabled
UpdateOnlyCapture ==
    [ bindings |-> { LiveBinding("grass", "grass", Name("alpine-grass"), FALSE),
                     LiveBinding("moss", "moss", Name("moss"), FALSE),
                     LiveBinding("lichen", "lichen", Name("lichen"), TRUE) },
      collections |-> (Name("alpine-grass") :> Collection(1, KeyId))
                      @@ (Name("moss") :> Collection(1, KeyId))
                      @@ (Name("lichen") :> Collection(1, KeyId)),
      matBindings |-> { MaterializationBinding(Name("alpine-grass")),
                        MaterializationBinding(Name("moss")) } ]

\* A capture whose only binding uses the name another resource would derive,
\* with a versioned collection of that name already in the catalog
UserNamedCapture ==
    [ bindings |-> { LiveBinding("grass", "grass", Name("moss"), FALSE) },
      collections |-> (Name("moss") :> Collection(1, KeyId))
                      @@ ([Name("moss") EXCEPT !.ver = FirstVersion] :> Collection(1, KeyId)),
      matBindings |-> { MaterializationBinding(Name("moss")) } ]

LiveModels == {NewCapture, UpdateOnlyCapture, UserNamedCapture}

IdleCycle ==
    [ discovered |-> <<>>, changes |-> EmptyChanges, bindings |-> {},
      collections |-> <<>>, renames |-> <<>> ]

\* AutoDiscoverStatus::default(): "a blank auto-capture status"
BlankStatus == [last_success |-> None, failure |-> None]

\* AUTO_DISCOVER_WAIT (20ms) is the clock tick; AUTO_DISCOVER_INTERVAL (15ms)
\* has passed after one tick
AUTO_DISCOVER_WAIT == 1

AUTO_DISCOVER_INTERVAL == 1

AutoDiscoverSpecs ==
    Optional([addNewBindings : BOOLEAN, evolveIncompatibleCollections : BOOLEAN])

ShardsSpecs == [disable : BOOLEAN]

Init ==
    /\ autoDiscover \in AutoDiscoverSpecs
    /\ shards \in ShardsSpecs
    /\ \E m \in LiveModels :
          /\ bindings = m.bindings
          /\ collections = m.collections
          /\ matBindings = m.matBindings
    /\ initialized = FALSE
    /\ status = BlankStatus
    /\ next_run = None
    /\ history = <<>>
    /\ now = 0
    /\ pc = "idle"
    /\ cycle = IdleCycle

----------------------------------------------------------------------------
\* Auto-Discover Scheduler

capture == <<autoDiscover, shards>>

live == <<bindings, collections, matBindings>>

\* Auto-discover runs on a capture that has an autoDiscover and whose shards
\* are not disabled
Enabled == autoDiscover # None /\ ~shards.disable

NextRun(t) == Some(t + AUTO_DISCOVER_INTERVAL)

Due == next_run # None /\ now >= next_run[1]

\* A user publication of the capture that adds or removes its autoDiscover,
\* or disables or enables its shards
UserPublication(ad, sh) ==
    /\ pc = "idle"
    /\ now < MaxCycles
    /\ \/ ad = autoDiscover /\ sh # shards
       \/ ad # autoDiscover /\ sh = shards /\ None \in {ad, autoDiscover}
    /\ autoDiscover' = ad
    /\ shards' = sh
    /\ now' = now + 1
    /\ UNCHANGED <<live, initialized, status, next_run, history, pc, cycle>>

\* Variant: the capture is due in the run that creates its status.
InitializeDue ==
    /\ pc = "idle"
    /\ Enabled
    /\ ~initialized
    /\ initialized' = TRUE
    /\ status' = BlankStatus
    /\ next_run' = Some(now)
    /\ UNCHANGED <<capture, live, history, now, pc, cycle>>

\* The first controller run of a capture that auto-discovers: it creates the
\* blank status and schedules the capture; it does not discover
Initialize ==
    /\ pc = "idle"
    /\ Enabled
    /\ ~initialized
    /\ initialized' = TRUE
    /\ status' = BlankStatus
    /\ next_run' = NextRun(now)
    /\ UNCHANGED <<capture, live, history, now, pc, cycle>>

\* Variant: the run unschedules the capture and keeps its status.
UnscheduleOnly ==
    /\ pc = "idle"
    /\ ~Enabled
    /\ next_run # None
    /\ next_run' = None
    /\ UNCHANGED <<capture, live, initialized, status, history, now, pc, cycle>>

\* A controller run of a capture without autoDiscover or with disabled
\* shards: no status, no next run
ClearStatus ==
    /\ pc = "idle"
    /\ ~Enabled
    /\ initialized \/ next_run # None
    /\ initialized' = FALSE
    /\ status' = BlankStatus
    /\ next_run' = None
    /\ UNCHANGED <<capture, live, history, now, pc, cycle>>

\* tokio::time::sleep(AUTO_DISCOVER_WAIT) until the capture is due
Sleep ==
    /\ pc = "idle"
    /\ now < MaxCycles
    /\ next_run # None
    /\ ~Due
    /\ now' = now + AUTO_DISCOVER_WAIT
    /\ UNCHANGED <<capture, live, initialized, status, next_run, history, pc, cycle>>

----------------------------------------------------------------------------
\* The capture controller's discover cycle

\* A controller run of a due capture calls the connector's discover
StartDiscover ==
    /\ pc = "idle"
    /\ Enabled
    /\ initialized
    /\ Due
    /\ pc' = "discovering"
    /\ UNCHANGED <<capture, live, initialized, status, next_run, history, now, cycle>>

\* Variant: a connector error takes the capture off the schedule.
DiscoverFailedUnscheduled ==
    /\ pc = "discovering"
    /\ status' = RecordFailure(status,
            Outcome(now, EmptyChanges, None, <<"a simulated discover error">>))
    /\ next_run' = None
    /\ pc' = "idle"
    /\ UNCHANGED <<capture, live, initialized, history, now, cycle>>

\* mock_discover(Err("a simulated discover error"))
DiscoverFailed ==
    /\ pc = "discovering"
    /\ status' = RecordFailure(status,
            Outcome(now, EmptyChanges, None, <<"a simulated discover error">>))
    /\ next_run' = NextRun(now)
    /\ pc' = "idle"
    /\ UNCHANGED <<capture, live, initialized, history, now, cycle>>

DuplicateIdentityError == "duplicate resource identity"

\* The errors list of a failed discover
DiscoverErrors == { <<"a simulated discover error">>, <<DuplicateIdentityError>> }

\* The Discovered response names one resource identity twice: the merge
\* refuses it, and the cycle ends as a failed discover
DiscoverDuplicate(discovered) ==
    /\ pc = "discovering"
    /\ HasDuplicate(discovered)
    /\ status' = RecordFailure(status,
            Outcome(now, EmptyChanges, None, <<DuplicateIdentityError>>))
    /\ next_run' = NextRun(now)
    /\ pc' = "idle"
    /\ UNCHANGED <<capture, live, initialized, history, now, cycle>>

\* Variant: the no-op cycle replaces last_success and keeps the failure.
DiscoverUnchangedKeepingFailure(discovered) ==
    LET m == Merge(bindings, collections, discovered, autoDiscover[1].addNewBindings)
    IN  /\ pc = "discovering"
        /\ IsUnchanged(ChangesOf(m))
        /\ status' = [status EXCEPT
                !.last_success = Some(Outcome(now, ChangesOf(m), None, <<>>))]
        /\ next_run' = NextRun(now)
        /\ pc' = "idle"
        /\ UNCHANGED <<capture, live, initialized, history, now, cycle>>

\* mock_discover(Ok(discovered)), nothing to publish
DiscoverUnchanged(discovered) ==
    LET m == Merge(bindings, collections, discovered, autoDiscover[1].addNewBindings)
    IN  /\ pc = "discovering"
        /\ IsUnchanged(ChangesOf(m))
        /\ status' = RecordSuccess(status, Outcome(now, ChangesOf(m), None, <<>>))
        /\ next_run' = NextRun(now)
        /\ pc' = "idle"
        /\ UNCHANGED <<capture, live, initialized, history, now, cycle>>

\* mock_discover(Ok(discovered)), the merged model is submitted
DiscoverMerged(discovered) ==
    LET m == Merge(bindings, collections, discovered, autoDiscover[1].addNewBindings)
    IN  /\ pc = "discovering"
        /\ ~IsUnchanged(ChangesOf(m))
        /\ cycle' = [ discovered |-> discovered, changes |-> ChangesOf(m),
                      bindings |-> m.bindings, collections |-> m.collections,
                      renames |-> <<>> ]
        /\ pc' = "publishing"
        /\ UNCHANGED <<capture, live, initialized, status, next_run, history, now>>

Recreating == Cardinality(DOMAIN cycle.renames)

\* Variant: the successful outcome is recorded without its publication
\* result.
CommitWithoutResult(result) ==
    /\ bindings' = cycle.bindings
    /\ collections' = cycle.collections
    /\ matBindings' = EvolveMaterialization(matBindings, cycle.renames)
    /\ status' = RecordSuccess(status, Outcome(now, cycle.changes, None, <<>>))
    /\ history' = <<HistoryEntry(cycle.changes, Recreating, result, <<>>)>> \o history
    /\ next_run' = NextRun(now)
    /\ pc' = "idle"
    /\ cycle' = IdleCycle
    /\ UNCHANGED <<capture, initialized, now>>

\* The publication of the cycle's draft commits
Commit(result) ==
    /\ bindings' = cycle.bindings
    /\ collections' = cycle.collections
    /\ matBindings' = EvolveMaterialization(matBindings, cycle.renames)
    /\ status' = RecordSuccess(status, Outcome(now, cycle.changes, Some(result), <<>>))
    /\ history' = <<HistoryEntry(cycle.changes, Recreating, result, <<>>)>> \o history
    /\ next_run' = NextRun(now)
    /\ pc' = "idle"
    /\ cycle' = IdleCycle
    /\ UNCHANGED <<capture, initialized, now>>

\* Variant: a failed publication leaves the draft's binding list live.
FailApplied(result, errors) ==
    /\ bindings' = cycle.bindings
    /\ status' = RecordFailure(status, Outcome(now, cycle.changes, Some(result), <<>>))
    /\ history' = <<HistoryEntry(cycle.changes, Recreating, result, errors)>> \o history
    /\ next_run' = NextRun(now)
    /\ pc' = "idle"
    /\ cycle' = IdleCycle
    /\ UNCHANGED <<capture, collections, matBindings, initialized, now>>

\* Variant: a failed publication is left out of the history.
FailUnrecorded(result, errors) ==
    /\ status' = RecordFailure(status, Outcome(now, cycle.changes, Some(result), <<>>))
    /\ next_run' = NextRun(now)
    /\ pc' = "idle"
    /\ cycle' = IdleCycle
    /\ UNCHANGED <<capture, live, initialized, history, now>>

\* Variant: the delay after a failed publication grows with the length of
\* the streak.
FailBackingOff(result, errors) ==
    /\ status' = RecordFailure(status, Outcome(now, cycle.changes, Some(result), <<>>))
    /\ history' = <<HistoryEntry(cycle.changes, Recreating, result, errors)>> \o history
    /\ next_run' = Some(now + AUTO_DISCOVER_INTERVAL * NextCount(status.failure))
    /\ pc' = "idle"
    /\ cycle' = IdleCycle
    /\ UNCHANGED <<capture, live, initialized, now>>

\* The publication of the cycle's draft fails: the live model stays
Fail(result, errors) ==
    /\ status' = RecordFailure(status, Outcome(now, cycle.changes, Some(result), <<>>))
    /\ history' = <<HistoryEntry(cycle.changes, Recreating, result, errors)>> \o history
    /\ next_run' = NextRun(now)
    /\ pc' = "idle"
    /\ cycle' = IdleCycle
    /\ UNCHANGED <<capture, live, initialized, now>>

KeyChangeError ==
    "collection key and logical partitioning may not be changed; a new collection must be created"

PublishSucceeded ==
    /\ pc = "publishing"
    /\ KeyChanged(cycle.collections, collections) = {}
    /\ Commit(Success)

\* fail_next_build(InjectBuildError("a simulated build failure"))
PublishBuildFailed ==
    /\ pc = "publishing"
    /\ Fail(BuildFailed({}), <<"a simulated build failure">>)

\* incompatible_collections, evolveIncompatibleCollections = false
PublishIncompatible ==
    /\ pc = "publishing"
    /\ KeyChanged(cycle.collections, collections) # {}
    /\ ~autoDiscover[1].evolveIncompatibleCollections
    /\ Fail(BuildFailed(IncompatibleCollections(cycle.collections, collections)),
            <<KeyChangeError>>)

\* Variant: the materialization is retargeted when the rewritten model is
\* submitted.
EvolveAndRepublishEager ==
    LET bad == KeyChanged(cycle.collections, collections)
        result == BuildFailed(IncompatibleCollections(cycle.collections, collections))
        renames == Renames(bad, DOMAIN collections \cup DOMAIN cycle.collections)
    IN  /\ pc = "publishing"
        /\ bad # {}
        /\ autoDiscover[1].evolveIncompatibleCollections
        /\ history' = <<HistoryEntry(cycle.changes, 0, result, <<KeyChangeError>>)>> \o history
        /\ cycle' = [cycle EXCEPT
                !.bindings = EvolveBindings(@, renames),
                !.collections = EvolveCollections(@, collections, renames),
                !.renames = renames]
        /\ matBindings' = EvolveMaterialization(matBindings, renames)
        /\ pc' = "republishing"
        /\ UNCHANGED <<capture, bindings, collections, initialized, status, next_run, now>>

\* incompatible_collections, evolveIncompatibleCollections = true: the
\* failed attempt is recorded and the rewritten model is submitted again
EvolveAndRepublish ==
    LET bad == KeyChanged(cycle.collections, collections)
        result == BuildFailed(IncompatibleCollections(cycle.collections, collections))
        renames == Renames(bad, DOMAIN collections \cup DOMAIN cycle.collections)
    IN  /\ pc = "publishing"
        /\ bad # {}
        /\ autoDiscover[1].evolveIncompatibleCollections
        /\ history' = <<HistoryEntry(cycle.changes, 0, result, <<KeyChangeError>>)>> \o history
        /\ cycle' = [cycle EXCEPT
                !.bindings = EvolveBindings(@, renames),
                !.collections = EvolveCollections(@, collections, renames),
                !.renames = renames]
        /\ pc' = "republishing"
        /\ UNCHANGED <<capture, live, initialized, status, next_run, now>>

RepublishSucceeded ==
    /\ pc = "republishing"
    /\ KeyChanged(cycle.collections, collections) = {}
    /\ Commit(Success)

\* The results of a failed republish: a build failure that names no
\* collection, or one that names the re-created collections again
RepublishFailures ==
    { BuildFailed({}),
      BuildFailed({ [collection |-> cycle.renames[o], requires_recreation |-> {"keyChange"}] :
                      o \in DOMAIN cycle.renames }) }

\* Variant: a failed republish submits the draft once more.
RepublishRetried(result) ==
    /\ pc = "republishing"
    /\ history' = <<HistoryEntry(cycle.changes, Recreating, result,
                                 <<"a simulated build failure">>)>> \o history
    /\ pc' = "republishing"
    /\ UNCHANGED <<capture, live, initialized, status, next_run, now, cycle>>

\* The republish fails: the cycle ends, whatever the failure
RepublishFailed(result) ==
    /\ pc = "republishing"
    /\ Fail(result, <<"a simulated build failure">>)

\* The materialization controller (sourceCapture): a binding for every
\* enabled capture binding whose collection it does not read yet
MaterializationCycle ==
    LET missing == { b.target : b \in { x \in bindings : ~x.disable } }
                     \ { mb.source : mb \in matBindings }
    IN  /\ missing # {}
        /\ matBindings' = matBindings \cup { MaterializationBinding(t) : t \in missing }
        /\ UNCHANGED <<capture, bindings, collections, initialized, status,
                       next_run, history, now, pc, cycle>>

\* Variant: the cancelled run records what the cycle had computed.
CancelRecorded ==
    /\ pc \in {"discovering", "publishing", "republishing"}
    /\ now < MaxCycles
    /\ now' = now + 1
    /\ status' = RecordFailure(status, Outcome(now, cycle.changes, None, <<"cancelled">>))
    /\ pc' = "idle"
    /\ cycle' = IdleCycle
    /\ UNCHANGED <<capture, live, initialized, next_run, history>>

\* The controller run is cancelled while it waits for the connector's
\* discover or for a publication: nothing of the cycle is persisted
Cancel ==
    /\ pc \in {"discovering", "publishing", "republishing"}
    /\ now < MaxCycles
    /\ now' = now + 1
    /\ pc' = "idle"
    /\ cycle' = IdleCycle
    /\ UNCHANGED <<capture, live, initialized, status, next_run, history>>

Next ==
    \/ \E ad \in AutoDiscoverSpecs, sh \in ShardsSpecs : UserPublication(ad, sh)
    \/ Initialize
    \/ ClearStatus
    \/ Sleep
    \/ StartDiscover
    \/ DiscoverFailed
    \/ \E d \in DuplicateResponses : DiscoverDuplicate(d)
    \/ \E d \in DiscoveredResponses : DiscoverUnchanged(d)
    \/ \E d \in DiscoveredResponses : DiscoverMerged(d)
    \/ PublishSucceeded
    \/ PublishBuildFailed
    \/ PublishIncompatible
    \/ EvolveAndRepublish
    \/ RepublishSucceeded
    \/ \E result \in RepublishFailures : RepublishFailed(result)
    \/ MaterializationCycle
    \/ Cancel

Spec == Init /\ [][Next]_vars

\* The steps in which the connector's discover or a publication returns
CycleStep ==
    \/ DiscoverFailed
    \/ \E d \in DuplicateResponses : DiscoverDuplicate(d)
    \/ \E d \in DiscoveredResponses : DiscoverUnchanged(d)
    \/ \E d \in DiscoveredResponses : DiscoverMerged(d)
    \/ PublishSucceeded
    \/ PublishBuildFailed
    \/ PublishIncompatible
    \/ EvolveAndRepublish
    \/ RepublishSucceeded
    \/ \E result \in RepublishFailures : RepublishFailed(result)

\* The controller runs of the capture: a pending run is run
ControllerRun == Initialize \/ ClearStatus \/ StartDiscover

\* The connector and the publication pipeline answer, pending controller
\* runs are run, and the clock goes on
FairSpec ==
    /\ Init /\ [][Next]_vars
    /\ WF_vars(CycleStep)
    /\ WF_vars(ControllerRun)
    /\ WF_vars(Sleep)

----------------------------------------------------------------------------
\* Properties

\* current_status.unwrap_capture().auto_discover
auto_discover == IF initialized THEN Some(status) ELSE None

\* The flags of the capture's AutoDiscoverConfig; both off when it is absent
AutoDiscoverConfig ==
    IF autoDiscover = None
    THEN [addNewBindings |-> FALSE, evolveIncompatibleCollections |-> FALSE]
    ELSE autoDiscover[1]


\* The discovered bindings of the cycle in flight
InFlight == { cycle.discovered[i] : i \in 1..Len(cycle.discovered) }

\* The live binding a discovered binding is matched with, as a set
LiveMatch(d) == { b \in bindings : b.resource_path = ResourceIdentity(d) }

\* The bindings of the candidate list with the identity of a discovered binding
Candidates(d) == { c \in cycle.bindings : c.resource_path = ResourceIdentity(d) }

Submitted == pc \in {"publishing", "republishing"}

\* A step that ends a cycle: the controller run persists its outcome and
\* schedules the next run (a cancelled run does neither)
Ending == pc # "idle" /\ pc' = "idle" /\ next_run' # next_run

\* A step that cancels the controller run
Cancelled == pc # "idle" /\ pc' = "idle" /\ next_run' = next_run

\* A step that ends a cycle with a committed publication
Committing == Submitted /\ Ending /\ status'.failure = None

\* A step that ends a cycle in success: it persists a successful outcome
\* with the cycle's timestamp
EndingInSuccess ==
    Ending /\ status'.last_success # None /\ status'.last_success[1].ts = now

\* A step that ends a cycle in failure: it persists a failed outcome with
\* the cycle's timestamp
EndingInFailure ==
    Ending /\ status'.failure # None /\ status'.failure[1].last_outcome.ts = now

\* C1: after a cycle that published successfully, the same Discovered
\* response merged into the resulting live model yields empty added,
\* modified and removed lists, so that the next cycle is the no-op one.
C1_Idempotent ==
    [][Committing =>
        IsUnchanged(ChangesOf(Merge(bindings', collections', cycle.discovered,
                                    AutoDiscoverConfig.addNewBindings)))]_vars

\* A no-op cycle right after a cycle that published changes
C1_Witness ==
    /\ pc = "idle" /\ now = 2 /\ Len(history) = 1
    /\ history[1].result = Success
    /\ status.last_success # None
    /\ status.last_success[1].ts = 2
    /\ status.last_success[1].publish_result = None
    /\ IsUnchanged(status.last_success[1])

\* C2: a failed cycle sets failure.count to 1 when no streak is open and
\* adds exactly 1 to it otherwise, whatever the failure kind; a cycle that
\* ends in success leaves the failure record absent.
C2_FailureCounting ==
    [][/\ Ending => (EndingInFailure # EndingInSuccess)
       /\ EndingInFailure =>
            /\ status'.failure # None
            /\ status'.failure[1].count =
                  IF status.failure = None THEN 1 ELSE status.failure[1].count + 1
       /\ EndingInSuccess => status'.failure = None]_vars

\* A second consecutive failure, by a failed publication after a discover error
C2_Witness ==
    /\ pc = "idle" /\ status.failure # None
    /\ status.failure[1].count = 2
    /\ status.failure[1].last_outcome.publish_result # None
    /\ status.failure[1].first_ts # status.failure[1].last_outcome.ts

\* C3: a binding that is disabled in the live list and stays in it is
\* disabled after every step, and a matched pair that differs only in live
\* disable = true against discovered disable = false is not modified.
C3_DisableSticky ==
    /\ [][\A b \in bindings : b.disable =>
            \A c \in bindings' : c.resource_path = b.resource_path => c.disable]_vars
    /\ [](Submitted =>
            \A d \in InFlight : \A b \in LiveMatch(d) :
                (b.disable /\ ~d.disable /\ collections[b.target] = MergedCollection(d))
                => \A m \in cycle.changes.modified : m.resource_path # b.resource_path)

\* A published cycle in which the connector reported a disabled live binding as enabled
C3_Witness ==
    /\ pc = "publishing"
    /\ \E d \in InFlight : \E b \in LiveMatch(d) : \E c \in Candidates(d) :
          b.disable /\ ~d.disable /\ c.disable

\* C4 as stated: every key of the live config keeps its value and every key
\* only the discovered config has is in the merged config with its value.
C4_DiscoveredKeysAdded ==
    Submitted =>
        \A d \in InFlight : \A b \in LiveMatch(d) : \A c \in Candidates(d) :
            /\ \A k \in DOMAIN b.resource :
                  k \in DOMAIN c.resource /\ c.resource[k] = b.resource[k]
            /\ \A k \in DOMAIN d.resource_config \ DOMAIN b.resource :
                  k \in DOMAIN c.resource /\ c.resource[k] = d.resource_config[k]

\* C4 amended: the merged config of a matched pair is the live config: every
\* live key keeps its live value and no key of the discovered config is added.
C4_LiveConfigKept ==
    Submitted =>
        \A d \in InFlight : \A b \in LiveMatch(d) : \A c \in Candidates(d) :
            /\ \A k \in DOMAIN b.resource :
                  k \in DOMAIN c.resource /\ c.resource[k] = b.resource[k]
            /\ DOMAIN c.resource = DOMAIN b.resource

\* A matched pair whose discovered config has a key the live config lacks
\* and another value for a key the live config has
C4_Witness ==
    /\ pc = "publishing"
    /\ \E d \in InFlight : \E b \in LiveMatch(d) :
          DOMAIN d.resource_config \ DOMAIN b.resource # {}
    /\ \E d \in InFlight : \E b \in LiveMatch(d) :
          \E k \in DOMAIN d.resource_config \cap DOMAIN b.resource :
              d.resource_config[k] # b.resource[k]

\* C5: with addNewBindings = false no step brings a resource identity into
\* the live binding list that was not in it, and no outcome has an added entry.
C5_AdditionGating ==
    /\ [][~AutoDiscoverConfig.addNewBindings =>
            { b.resource_path : b \in bindings' } \subseteq { b.resource_path : b \in bindings }]_vars
    /\ [](~AutoDiscoverConfig.addNewBindings => cycle.changes.added = {})
    /\ [][(~AutoDiscoverConfig.addNewBindings /\ Ending) =>
            /\ EndingInSuccess => status'.last_success[1].added = {}
            /\ EndingInFailure => status'.failure[1].last_outcome.added = {}]_vars

\* A published cycle with addNewBindings = false whose response has a resource
\* that is not in the live list
C5_Witness ==
    /\ ~AutoDiscoverConfig.addNewBindings
    /\ pc = "publishing"
    /\ \E d \in InFlight : LiveMatch(d) = {}

\* C6: with addNewBindings = true every discovered resource that matches no
\* live binding gets exactly one candidate binding, with the connector's
\* disable flag and the target tenant/recommended_name, suffixed (with the
\* least free suffix) exactly when a live collection or another binding of
\* the list has that name, and exactly one added entry
\* equal to that binding's change; a committed publication makes it live.
C6_Additions ==
    /\ []((pc = "publishing" /\ AutoDiscoverConfig.addNewBindings) =>
            \A d \in InFlight : LiveMatch(d) = {} =>
                /\ Cardinality(Candidates(d)) = 1
                /\ \A c \in Candidates(d) :
                      LET inUse(n) == \/ n \in DOMAIN collections
                                      \/ \E o \in cycle.bindings \ {c} : o.target = n
                      IN  /\ c.disable = d.disable
                          /\ c.target.base = d.recommended_name
                          /\ c.target.ver = 1
                          /\ IF inUse(Name(d.recommended_name))
                             THEN /\ c.target.dup >= 2
                                  /\ \A j \in 2..(c.target.dup - 1) :
                                        inUse([c.target EXCEPT !.dup = j])
                             ELSE c.target.dup = 0
                          /\ ~inUse(c.target)
                          /\ { a \in cycle.changes.added :
                                  a.resource_path = ResourceIdentity(d) } = {ChangeOf(c)})
    /\ [][Committing =>
            \A a \in cycle.changes.added :
                /\ \A b \in bindings : b.resource_path # a.resource_path
                /\ Cardinality({ b \in bindings' : b.resource_path = a.resource_path }) = 1
                /\ \E b \in bindings' : ChangeOf(b) = a]_vars

\* A published addition whose derived name was taken by another binding
C6_Witness ==
    /\ pc = "idle"
    /\ AutoDiscoverConfig.addNewBindings
    /\ status.last_success # None
    /\ \E b \in bindings :
          /\ b.target.dup = 2
          /\ ChangeOf(b) \in status.last_success[1].added
          /\ \E o \in bindings : o.target = [b.target EXCEPT !.dup = 0]

\* C7: every live binding whose identity the connector does not report is
\* absent from the candidate list and recorded as removed with its live
\* target and disable flag, whatever addNewBindings and its disable flag
\* are; a committed publication leaves no binding of that identity.
C7_Removal ==
    /\ [](Submitted =>
            \A b \in bindings : b.resource_path \notin Identities(cycle.discovered) =>
                /\ \A c \in cycle.bindings : c.resource_path # b.resource_path
                /\ ChangeOf(b) \in cycle.changes.removed)
    /\ [][Committing =>
            \A b \in bindings : b.resource_path \notin Identities(cycle.discovered) =>
                \A c \in bindings' : c.resource_path # b.resource_path]_vars

\* With addNewBindings = false, an enabled and a disabled binding are removed
C7_Witness ==
    /\ pc = "publishing"
    /\ ~AutoDiscoverConfig.addNewBindings
    /\ \E r \in cycle.changes.removed : r.disable
    /\ \E r \in cycle.changes.removed : ~r.disable

\* The incompatible collections a recorded job status names
Named(result) == { ic.collection : ic \in result.incompatible_collections }

\* C8: with evolveIncompatibleCollections = false, a submitted draft that
\* changes a collection's key ends the cycle after one publication attempt:
\* one history entry, no second attempt, no new collection, live model
\* unchanged, a failure recorded whose publish_result is the history entry's
\* and, unless the build failed otherwise, names exactly the collections
\* whose key changed; the same response then meets the same incompatibility
\* again; and a cycle that finds nothing to publish ends with failure absent.
C8_NoEvolution ==
    /\ [][(/\ pc = "publishing" /\ pc' # "publishing" /\ ~Cancelled
            /\ ~AutoDiscoverConfig.evolveIncompatibleCollections
            /\ KeyChanged(cycle.collections, collections) # {}) =>
            /\ pc' = "idle"
            /\ Len(history') = Len(history) + 1
            /\ <<bindings, collections, matBindings>>' = <<bindings, collections, matBindings>>
            /\ status'.failure # None
            /\ status'.failure[1].last_outcome.publish_result = Some(history'[1].result)
            /\ history'[1].result.type = "buildFailed"
            /\ Named(history'[1].result) \in {{}, KeyChanged(cycle.collections, collections)}
            /\ KeyChanged(Merge(bindings', collections', cycle.discovered,
                                AutoDiscoverConfig.addNewBindings).collections, collections')
                 = KeyChanged(cycle.collections, collections)]_vars
    /\ [][(pc = "discovering" /\ EndingInSuccess) =>
            /\ status'.failure = None
            /\ status'.last_success[1].publish_result = None
            /\ history' = history]_vars

\* The incompatible key was reported, then the original key again
C8_Witness ==
    /\ pc = "idle" /\ now = 2
    /\ ~AutoDiscoverConfig.evolveIncompatibleCollections
    /\ Len(history) = 1
    /\ Named(history[1].result) # {}
    /\ status.failure = None
    /\ status.last_success # None
    /\ status.last_success[1].publish_result = None

\* C9: with evolveIncompatibleCollections = true, every collection whose key
\* changed is re-created under its name with the least version suffix >= 2
\* that no live collection has, the new names being distinct; no candidate
\* binding targets the old name and the binding that did targets the new one;
\* and when the republish commits, every materialization binding sourced from
\* the old name is sourced from the new one with its backfill one higher.
C9_Evolution ==
    /\ [](pc = "republishing" =>
            /\ AutoDiscoverConfig.evolveIncompatibleCollections
            /\ DOMAIN cycle.renames # {}
            /\ DOMAIN cycle.renames =
                  { n \in DOMAIN collections :
                      \E d \in InFlight : \E b \in LiveMatch(d) :
                          b.target = n /\ d.key # collections[n].key }
            /\ \A old \in DOMAIN cycle.renames :
                  LET new == cycle.renames[old]
                  IN  /\ new.base = old.base /\ new.dup = old.dup
                      /\ new.ver >= 2
                      /\ new \notin DOMAIN collections
                      /\ \A v \in 2..(new.ver - 1) :
                            [old EXCEPT !.ver = v] \in DOMAIN collections
                      /\ \A other \in DOMAIN cycle.renames \ {old} :
                            cycle.renames[other] # new
                      /\ new \in DOMAIN cycle.collections
                      /\ cycle.collections[old] = collections[old]
                      /\ \A c \in cycle.bindings : c.target # old
                      /\ \A b \in bindings :
                            (b.target = old /\ b.resource_path \in Identities(cycle.discovered))
                            => \E c \in cycle.bindings :
                                  c.resource_path = b.resource_path /\ c.target = new)
    /\ [][(pc = "republishing" /\ Committing) =>
            /\ bindings' = cycle.bindings
            /\ \A old \in DOMAIN cycle.renames : cycle.renames[old] \in DOMAIN collections'
            /\ \A mb \in matBindings :
                  IF mb.source \in DOMAIN cycle.renames
                  THEN /\ mb \notin matBindings'
                       /\ [source |-> cycle.renames[mb.source],
                            backfill |-> mb.backfill + 1] \in matBindings'
                  ELSE mb \in matBindings'
            /\ Cardinality(matBindings') = Cardinality(matBindings)]_vars

\* alpine-grass re-created as alpine-grass_v2, read by the materialization
\* with backfill 1
C9_Witness ==
    /\ pc = "idle"
    /\ \E b \in bindings :
          /\ b.target = [Name("alpine-grass") EXCEPT !.ver = 2]
          /\ [source |-> b.target, backfill |-> 1] \in matBindings
    /\ history # <<>> /\ history[1].detail.recreating = 1

\* C10: a connector discover error creates the failure record with count 1,
\* or adds 1 to its count, with the connector's message in
\* last_outcome.errors and no publish_result, and leaves last_success, the
\* live bindings, collections, materialization and the history as they were.
C10_DiscoverError ==
    [][(pc = "discovering" /\ EndingInFailure) =>
        /\ status'.failure # None
        /\ status'.failure[1].count =
              IF status.failure = None THEN 1 ELSE status.failure[1].count + 1
        /\ status'.failure[1].last_outcome.errors \in DiscoverErrors
        /\ status'.failure[1].last_outcome.publish_result = None
        /\ status'.last_success = status.last_success
        /\ <<bindings, collections, matBindings>>' = <<bindings, collections, matBindings>>
        /\ history' = history]_vars

\* A discover error after a successful publication
C10_Witness ==
    /\ pc = "idle"
    /\ status.failure # None
    /\ status.failure[1].count = 1
    /\ status.failure[1].last_outcome.errors # <<>>
    /\ status.last_success # None
    /\ status.last_success[1].publish_result = Some(Success)
    /\ Len(history) = 1

\* C11: every cycle that ends without error, the no-op one included,
\* overwrites last_success with the outcome of that cycle: its timestamp,
\* its change lists and its publish_result (absent when nothing was
\* published); and the timestamp of last_success is greater than the one it
\* replaces.
C11_LastSuccess ==
    [][(Ending /\ status'.failure = None) =>
        /\ status'.last_success # None
        /\ status'.last_success[1] =
              IF pc = "discovering"
              THEN Outcome(now, EmptyChanges, None, <<>>)
              ELSE Outcome(now, cycle.changes, Some(Success), <<>>)
        /\ status.last_success # None =>
              status'.last_success[1].ts > status.last_success[1].ts]_vars

\* A no-op cycle has replaced the last_success of a cycle that published a
\* removal
C11_Witness ==
    /\ pc = "idle" /\ Len(history) = 1
    /\ history[1].result = Success
    /\ history[1].detail.removed > 0
    /\ status.last_success # None
    /\ status.last_success[1].ts > 1
    /\ status.last_success[1].removed = {}
    /\ status.last_success[1].publish_result = None

\* A step in which a submitted publication returns: the cycle ends or goes
\* on to the evolved republish
PublicationAttempt ==
    Submitted /\ (Ending \/ (pc = "publishing" /\ pc' = "republishing"))

ControllerRan ==
    <<initialized, status, next_run, pc>>' # <<initialized, status, next_run, pc>>

\* C13: every step of a controller run leaves the capture with an
\* auto_discover status and with a next_run exactly when it has an
\* autoDiscover and its shards are not disabled; a discover cycle is in
\* flight only on such a capture; and a run on a capture without autoDiscover
\* or with disabled shards leaves neither status nor next_run.
C13_Gating ==
    /\ [][ControllerRan =>
            /\ (auto_discover' # None) <=> Enabled'
            /\ (next_run' # None) <=> Enabled']_vars
    /\ [](pc # "idle" => Enabled /\ auto_discover # None /\ next_run # None)
    /\ [][(ControllerRan /\ ~Enabled) =>
            auto_discover' = None /\ next_run' = None /\ pc' = "idle"]_vars

\* The status of a capture that has published was cleared by the run that
\* followed the disabling of its shards
C13_Witness ==
    /\ pc = "idle"
    /\ autoDiscover # None /\ shards.disable
    /\ history # <<>>
    /\ auto_discover = None /\ next_run = None

\* C14 as stated: a live binding that is enabled and that the connector
\* reports with disable = true is disabled in the candidate list and is
\* recorded as modified.
C14_ConnectorDisables ==
    pc = "publishing" =>
        \A d \in InFlight : \A b \in LiveMatch(d) : \A c \in Candidates(d) :
            (~b.disable /\ d.disable) =>
                c.disable /\ ChangeOf(c) \in cycle.changes.modified

\* C14 amended: a live binding that is enabled and that the connector
\* reports with disable = true stays enabled in the candidate list; it is
\* recorded as modified exactly when the schema or key of its collection
\* changes, and then with disable = false.
C14_LiveDisableKept ==
    pc = "publishing" =>
        \A d \in InFlight : \A b \in LiveMatch(d) : \A c \in Candidates(d) :
            (~b.disable /\ d.disable) =>
                /\ ~c.disable
                /\ c.target = b.target
                /\ \A m \in cycle.changes.modified :
                      m.resource_path = b.resource_path =>
                          m = ChangeOf(c) /\ ~m.disable
                /\ ChangeOf(c) \in cycle.changes.modified
                      <=> collections[b.target] # MergedCollection(d)

\* The connector reports two enabled live bindings as disabled, one of them
\* with another schema: that one is modified, the other is not
C14_Witness ==
    /\ pc = "publishing"
    /\ \E d \in InFlight : \E b \in LiveMatch(d) : \E c \in Candidates(d) :
          /\ ~b.disable /\ d.disable /\ ~c.disable
          /\ ChangeOf(c) \in cycle.changes.modified
    /\ \E d \in InFlight : \E b \in LiveMatch(d) : \E c \in Candidates(d) :
          /\ ~b.disable /\ d.disable /\ ~c.disable
          /\ ChangeOf(c) \notin cycle.changes.modified

\* A step that ends a no-op cycle: the discover returned and the merge found
\* nothing to publish
NoOpCycle == pc = "discovering" /\ EndingInSuccess

\* C15 as stated: the no-op cycle replaces last_success, adds no history
\* entry and leaves the failure record as it was.
C15_FailureUntouched ==
    [][NoOpCycle =>
        /\ status'.last_success[1].ts = now
        /\ history' = history
        /\ status'.failure = status.failure]_vars

\* C15 amended: the no-op cycle replaces last_success by an outcome with
\* empty change lists and no publish_result, adds no history entry, leaves
\* the live model as it was, and clears the failure record: whatever the
\* record was before the cycle, it is absent after it.
C15_NoOpClearsFailure ==
    [][NoOpCycle =>
        /\ status'.last_success = Some(Outcome(now, EmptyChanges, None, <<>>))
        /\ history' = history
        /\ live' = live
        /\ status'.failure = None]_vars

\* A no-op cycle after a cycle whose publication failed in the build: the
\* failure record is gone
C15_Witness ==
    /\ pc = "idle" /\ Len(history) = 1
    /\ history[1].result = BuildFailed({})
    /\ status.failure = None
    /\ status.last_success # None
    /\ status.last_success[1].publish_result = None

\* The first controller run that finds the capture with an autoDiscover and
\* enabled shards and no status yet
FirstRun == pc = "idle" /\ Enabled /\ ~initialized /\ ControllerRan

\* C16 as stated: the first run finds the capture due: it calls discover, or
\* at least leaves the capture due at once.
C16_FirstRunImmediate ==
    [][FirstRun => (pc' = "discovering" \/ Due')]_vars

\* C16 amended: the first run creates the blank status, sets a next_run that
\* is later than the run, and does not discover; a discover is called only
\* by a run that finds the status and a next_run that has been reached.
C16_FirstRunInitializes ==
    /\ [][FirstRun =>
            /\ pc' = "idle"
            /\ auto_discover' = Some(BlankStatus)
            /\ next_run' # None
            /\ next_run'[1] > now
            /\ UNCHANGED <<live, history>>]_vars
    /\ [][(pc = "idle" /\ pc' = "discovering") =>
            /\ auto_discover # None
            /\ next_run # None
            /\ now >= next_run[1]]_vars

\* The first run has created the blank status and the capture is not due
C16_Witness ==
    /\ pc = "idle" /\ Enabled
    /\ auto_discover = Some(BlankStatus)
    /\ history = <<>>
    /\ next_run # None
    /\ ~Due

\* C17: a cycle makes at most two publication attempts: the first one is
\* submitted by the merge only, the evolved republish follows a first attempt
\* only, and when the republish returns, committed or failed (with the
\* re-created collections named incompatible again, too), the cycle ends and
\* no further attempt is made; a failed republish leaves a recorded failure
\* with its result and the live model as it was. Every step that ends a
\* cycle ends it in one of success and failure, and every cycle ends.
C17_BoundedRetry ==
    /\ [][(pc' = "publishing" /\ pc # "publishing") => pc = "discovering"]_vars
    /\ [][(pc' = "republishing" /\ pc # "republishing") => pc = "publishing"]_vars
    /\ [][(pc = "republishing" /\ (pc' # pc \/ history' # history)) =>
            /\ pc' = "idle"
            /\ Cancelled \/ Len(history') = Len(history) + 1
            /\ (~Cancelled /\ history'[1].result # Success) =>
                  /\ EndingInFailure
                  /\ status'.failure[1].last_outcome.publish_result
                        = Some(history'[1].result)
                  /\ live' = live]_vars
    /\ [][(pc # "idle" /\ pc' = "idle") =>
            (Cancelled \/ (EndingInSuccess # EndingInFailure))]_vars
    /\ (pc # "idle") ~> (pc = "idle")

\* The incompatible attempt, then an evolved republish that failed with the
\* re-created collection named incompatible again: the cycle has ended with
\* two history entries and a recorded failure
C17_Witness ==
    /\ pc = "idle" /\ Len(history) = 2
    /\ history[1].detail.recreating > 0
    /\ history[1].result.incompatible_collections # {}
    /\ history[2].result.incompatible_collections # {}
    /\ status.failure # None
    /\ status.failure[1].count = 1
    /\ status.failure[1].last_outcome.publish_result = Some(history[1].result)

\* C18: a cycle whose publication fails, in the build or with an
\* incompatible collection that is not evolved, leaves the live bindings,
\* collections and materialization bindings as they were, records the changes
\* it had computed, and the same response merged into the live model after
\* the cycle yields the same added, modified and removed lists again.
C18_FailedPublication ==
    [][(Submitted /\ EndingInFailure) =>
        /\ bindings' = bindings
        /\ collections' = collections
        /\ matBindings' = matBindings
        /\ ChangesOf(status'.failure[1].last_outcome) = cycle.changes
        /\ ChangesOf(Merge(bindings', collections', cycle.discovered,
                           AutoDiscoverConfig.addNewBindings)) = cycle.changes]_vars

\* Two cycles in a row failed in the build with the same removal reported
C18_Witness ==
    /\ pc = "idle" /\ Len(history) = 2
    /\ history[1].result = BuildFailed({})
    /\ history[2] = history[1]
    /\ history[1].detail.recreating = 0
    /\ status.failure # None
    /\ status.failure[1].count = 2
    /\ status.failure[1].last_outcome.removed # {}
    /\ \A r \in status.failure[1].last_outcome.removed :
          \E b \in bindings : ChangeOf(b) = r

Complete(outcome, failed) ==
    IF outcome.publish_result = None
    THEN /\ IsUnchanged(ChangesOf(outcome))
         /\ failed <=> outcome.errors # <<>>
    ELSE /\ ~IsUnchanged(ChangesOf(outcome))
         /\ failed <=> outcome.publish_result[1] # Success

\* C20: while a cycle waits for the connector or for a publication the
\* status is the one the cycle started with: no step within a cycle changes
\* it, and a cancelled run ends the cycle with the status, the next_run and
\* the live model as they are; the status is written only by a step that
\* ends a cycle or by a run outside a cycle, and every outcome in it is that
\* of a cycle that ran to its end.
C20_Cancellation ==
    /\ [][(pc # "idle" /\ pc' # "idle") => auto_discover' = auto_discover]_vars
    /\ [][Cancelled => (auto_discover' = auto_discover /\ live' = live)]_vars
    /\ [][auto_discover' # auto_discover => (Ending \/ pc = "idle")]_vars
    /\ [](/\ status.last_success # None => Complete(status.last_success[1], FALSE)
          /\ status.failure # None => Complete(status.failure[1].last_outcome, TRUE))

\* A run was cancelled while its evolved republish was submitted: the history
\* has the failed first attempt of the cycle, the status is still blank and
\* the capture is still due
C20_Witness ==
    /\ pc = "idle"
    /\ auto_discover = Some(BlankStatus)
    /\ Len(history) = 1
    /\ history[1].result.incompatible_collections # {}
    /\ history[1].detail.recreating = 0
    /\ Due

\* C21: every materialization binding reads a live collection, and while an
\* evolved republish is in flight none reads a collection the republish is
\* to create; a step gives a materialization binding a raised backfill only
\* when it commits the evolved republish, and the binding then reads a
\* collection that this commit has made live, in place of the binding of the
\* old name with the backfill one lower; a submitted publication that returns
\* without committing, and a cancelled run, leave the materialization
\* bindings as they were.
C21_RenameFollowsCommit ==
    /\ [](\A mb \in matBindings : mb.source \in DOMAIN collections)
    /\ [](pc = "republishing" =>
            \A mb \in matBindings : \A o \in DOMAIN cycle.renames :
                mb.source # cycle.renames[o])
    /\ [][\A mb \in matBindings' \ matBindings :
            (mb.backfill > 0 \/ mb.source \notin DOMAIN collections) =>
                /\ pc = "republishing" /\ Committing
                /\ mb.source \in DOMAIN collections' \ DOMAIN collections
                /\ \E o \in DOMAIN cycle.renames :
                      /\ cycle.renames[o] = mb.source
                      /\ [source |-> o, backfill |-> mb.backfill - 1] \in matBindings
                      /\ \A x \in matBindings' : x.source # o]_vars
    /\ [][(Submitted /\ pc' # pc /\ ~Committing) => matBindings' = matBindings]_vars

\* The evolved republish failed after the materialization had got its
\* bindings: none of them was retargeted or backfilled
C21_Witness ==
    /\ pc = "idle" /\ Len(history) >= 2
    /\ history[1].detail.recreating > 0
    /\ history[1].result # Success
    /\ \E mb \in matBindings :
          \E ic \in history[2].result.incompatible_collections :
              mb.source = ic.collection /\ mb.backfill = 0

\* The timestamps of the attempts the status records
Attempts ==
    { o.ts : o \in { x[1] : x \in {status.last_success} \ {None} } }
        \cup { f.last_outcome.ts : f \in { x[1] : x \in {status.failure} \ {None} } }

\* The timestamp of the most recent attempt, succeeded or failed
LastAttempt == CHOOSE t \in Attempts : \A u \in Attempts : u <= t

\* C22: a discover starts only on a capture with config present and shards
\* enabled, and, once the status records an attempt, only when
\* now >= LastAttempt + AUTO_DISCOVER_INTERVAL; a cycle that ends, in success
\* or in failure, schedules the next run at now + AUTO_DISCOVER_INTERVAL, so
\* the next run of a status with an attempt is always
\* LastAttempt + AUTO_DISCOVER_INTERVAL, whatever failure.count is.
C22_FixedInterval ==
    /\ [][(pc = "idle" /\ pc' = "discovering") =>
            /\ Enabled
            /\ Attempts # {} => now >= LastAttempt + AUTO_DISCOVER_INTERVAL]_vars
    /\ [][(EndingInSuccess \/ EndingInFailure) =>
            next_run' = Some(now + AUTO_DISCOVER_INTERVAL)]_vars
    /\ [](Attempts # {} => next_run = Some(LastAttempt + AUTO_DISCOVER_INTERVAL))

\* A discover has started exactly one interval after a failed attempt, the
\* only attempt the status records
C22_Witness ==
    /\ pc = "discovering"
    /\ Attempts # {}
    /\ status.last_success = None
    /\ LastAttempt = status.failure[1].last_outcome.ts
    /\ now = LastAttempt + AUTO_DISCOVER_INTERVAL

\* The status is within a streak of failed cycles: it records a failure
\* and no later success
InStreak ==
    /\ status.failure # None
    /\ status.last_success # None =>
          status.last_success[1].ts < status.failure[1].last_outcome.ts

\* C23: a cycle that ends in failure within a streak keeps
\* failure.first_ts, replaces failure.last_outcome by its own outcome, whose
\* timestamp is strictly greater than the replaced one's, and adds one to the
\* count; a failure that ends a cycle outside a streak (the first cycle, or
\* the cycle after a success) records count 1 and its own timestamp as
\* first_ts, later than the success before it. In every status first_ts is
\* at most the last outcome's timestamp and equals it exactly when the
\* count is 1.
C23_FailureStreak ==
    /\ [][EndingInFailure =>
            LET f == status'.failure[1] IN
            IF InStreak
            THEN /\ f.first_ts = status.failure[1].first_ts
                 /\ f.last_outcome.ts = now
                 /\ f.last_outcome.ts > status.failure[1].last_outcome.ts
                 /\ f.count = status.failure[1].count + 1
            ELSE /\ f.count = 1
                 /\ f.first_ts = now
                 /\ f.last_outcome.ts = now
                 /\ status.last_success # None =>
                       f.first_ts > status.last_success[1].ts]_vars
    /\ [](status.failure # None =>
            /\ status.failure[1].first_ts <= status.failure[1].last_outcome.ts
            /\ status.failure[1].count = 1 <=>
                  status.failure[1].first_ts = status.failure[1].last_outcome.ts)

\* The second failure of a streak: a failed discover, then a failed
\* publication whose outcome has replaced the first one
C23_Witness ==
    /\ pc = "idle"
    /\ InStreak
    /\ status.failure[1].count = 2
    /\ status.failure[1].first_ts < status.failure[1].last_outcome.ts
    /\ status.failure[1].last_outcome.publish_result # None
    /\ Len(history) = 1

\* C24: in a submitted draft every discovered resource whose identity
\* is a live binding's identity has exactly one candidate binding, on the
\* live binding's target (on its versioned name once the cycle's evolution
\* has renamed it), whatever name the recommended name derives, and no added
\* or removed entry carries that identity; when an evolved republish
\* commits, the same Discovered response merged into the new live model
\* changes nothing and yields the live binding list itself.
C24_MatchByIdentity ==
    /\ [](Submitted =>
            \A d \in InFlight : \A b \in LiveMatch(d) :
                /\ Cardinality(Candidates(d)) = 1
                /\ \A c \in Candidates(d) :
                      c.target = Renamed(cycle.renames, b.target)
                /\ \A ch \in cycle.changes.added \cup cycle.changes.removed :
                      ch.resource_path # b.resource_path)
    /\ [][(pc = "republishing" /\ Committing) =>
            LET again == Merge(bindings', collections', cycle.discovered,
                               AutoDiscoverConfig.addNewBindings)
            IN  IsUnchanged(ChangesOf(again)) /\ again.bindings = bindings']_vars

\* A draft is submitted in which a discovered resource is matched to a live
\* binding on a versioned target, the name an earlier evolution gave it
C24_Witness ==
    /\ pc = "publishing"
    /\ \E d \in InFlight : \E b \in LiveMatch(d) :
          /\ b.target.ver >= FirstVersion
          /\ b.target # Name(d.recommended_name)
          /\ b.target \in Targets(cycle.bindings)
          /\ Name(d.recommended_name) \notin Targets(cycle.bindings)

\* A Discovered response that reports exactly the live resources, each with
\* the schema and key of its live collection
SameSchemasAndKeys(discovered) ==
    /\ Identities(discovered) = { b.resource_path : b \in bindings }
    /\ \A i \in 1..Len(discovered) : \A b \in LiveMatch(discovered[i]) :
          /\ b.target \in DOMAIN collections
          /\ collections[b.target] = MergedCollection(discovered[i])

\* C25: in a submitted draft, before any evolution, a matched pair has a
\* modified entry exactly when the discovered document schema or key differs
\* from the live collection's or the candidate binding's disable flag
\* differs from the live binding's; whenever a response arrives that
\* reports the live resources with their live schemas and keys, whatever
\* resource configs it carries, the merge yields no modified entry (and no
\* other change); and a draft is submitted only with a non-empty change
\* list, so such a round publishes nothing.
C25_ModifiedRule ==
    /\ [](pc = "publishing" =>
            \A d \in InFlight : \A b \in LiveMatch(d) : \A c \in Candidates(d) :
                /\ b.target \in DOMAIN collections
                /\ ChangeOf(c) \in cycle.changes.modified <=>
                      \/ collections[b.target].schema # d.document_schema
                      \/ collections[b.target].key # d.key
                      \/ c.disable # b.disable)
    /\ [](pc = "discovering" =>
            \A discovered \in DiscoveredResponses :
                SameSchemasAndKeys(discovered) =>
                    IsUnchanged(ChangesOf(Merge(bindings, collections, discovered,
                                                AutoDiscoverConfig.addNewBindings))))
    /\ [][(pc = "discovering" /\ pc' = "publishing") =>
            ~IsUnchanged(cycle'.changes)]_vars
    /\ [][NoOpCycle => history' = history /\ live' = live]_vars

\* A submitted draft with two matched pairs: one modified by its schema,
\* and one whose discovered config differs from the live config, with the
\* live schema and key, which has no modified entry
C25_Witness ==
    /\ pc = "publishing"
    /\ \E d \in InFlight : \E b \in LiveMatch(d) : \E c \in Candidates(d) :
          /\ d.resource_config # b.resource
          /\ collections[b.target] = MergedCollection(d)
          /\ ChangeOf(c) \notin cycle.changes.modified
    /\ \E d \in InFlight : \E b \in LiveMatch(d) : \E c \in Candidates(d) :
          /\ collections[b.target].schema # d.document_schema
          /\ collections[b.target].key = d.key
          /\ ChangeOf(c) \in cycle.changes.modified

\* No two bindings of the list share a resource identity or a target
Unique(bs) ==
    \A a \in bs : \A b \in bs :
        (a.resource_path = b.resource_path \/ a.target = b.target) => a = b

\* C26: in every reachable state no two live bindings of the capture share
\* a resource identity and no two share a target, and the same holds of the
\* candidate list of every submitted draft, before and after an evolution;
\* no draft is built from a Discovered response that names an identity
\* twice: such a response ends the cycle as a failed discover, which adds
\* one to the failure count, records a non-empty errors list and no
\* publication result, and leaves the live model and the history as they
\* were.
C26_Uniqueness ==
    /\ [](Unique(bindings))
    /\ [](Submitted => Unique(cycle.bindings) /\ ~HasDuplicate(cycle.discovered))
    /\ [][\A discovered \in DuplicateResponses :
            DiscoverDuplicate(discovered) =>
                /\ EndingInFailure
                /\ status'.failure[1].count = NextCount(status.failure)
                /\ status'.failure[1].last_outcome.errors # <<>>
                /\ status'.failure[1].last_outcome.publish_result = None
                /\ status'.last_success = status.last_success
                /\ live' = live
                /\ history' = history]_vars

\* A capture whose earlier cycle added a binding has refused a response
\* that names an identity twice
C26_Witness ==
    /\ pc = "idle"
    /\ status.failure # None
    /\ status.failure[1].last_outcome.errors = <<DuplicateIdentityError>>
    /\ status.last_success # None
    /\ status.last_success[1].added # {}
    /\ Cardinality(bindings) >= 2

\* C27: in every reachable status, last_success has no publication result
\* or the result Success, has none exactly when its added, modified and
\* removed lists are all empty, and has no errors; failure.last_outcome has
\* either a publication result other than Success and no errors, or no
\* publication result and the non-empty errors list of a failed discover,
\* with empty change lists; and no step both replaces last_success by
\* another outcome and writes the failure record: a cycle that ends in
\* failure leaves last_success as it was.
C27_OutcomeKinds ==
    /\ [](status.last_success # None =>
            LET o == status.last_success[1] IN
            /\ o.publish_result \in {None, Some(Success)}
            /\ o.publish_result = None <=> IsUnchanged(o)
            /\ o.errors = <<>>)
    /\ [](status.failure # None =>
            LET o == status.failure[1].last_outcome IN
            \/ /\ o.publish_result # None
               /\ o.publish_result[1] # Success
               /\ o.publish_result[1].type = "buildFailed"
               /\ o.errors = <<>>
            \/ /\ o.publish_result = None
               /\ o.errors \in DiscoverErrors
               /\ IsUnchanged(o))
    /\ [][~(/\ status'.last_success \notin {None, status.last_success}
             /\ status'.failure \notin {None, status.failure})]_vars
    /\ [][EndingInFailure => status'.last_success = status.last_success]_vars

\* A status that holds one outcome of each kind: a success that published
\* additions, and after it a publication refused for an incompatible
\* collection
C27_Witness ==
    /\ pc = "idle"
    /\ status.last_success # None
    /\ status.last_success[1].publish_result = Some(Success)
    /\ status.last_success[1].added # {}
    /\ status.failure # None
    /\ status.failure[1].last_outcome.publish_result # None
    /\ status.failure[1].last_outcome.publish_result[1].incompatible_collections # {}
    /\ status.failure[1].last_outcome.ts > status.last_success[1].ts

====
